---- MODULE Spec2Model ----
(***************************************************************************)
(* Quantum-token payment protocol of app.py: the Issuer (TTPProgram), the  *)
(* Holder (ClientProgram) and the Verifier (MerchantProgram) as three      *)
(* sequential processes exchanging messages over four one-way channels.    *)
(* Bit strings are sequences over {0,1} (Python strings of '0'/'1').       *)
(***************************************************************************)
EXTENDS Integers, Sequences, FiniteSets, TLC

(* Token length, LAMBDA of app.py (a reserved word here).  app.py line 8   *)
(* sets it to 8; the model is explored with a shorter token, and mac keeps *)
(* the first Lambda bits of the real digest.                               *)
Lambda == 3

(* How many alterations of messages in transit a run may suffer.           *)
MaxTamper == 1

VARIABLES
    token_storage,   \* TTPProgram.token_storage: holder id -> [b, B]
    ttp_pc,          \* "start", "wait_verify", "done", "fault"
    ttp_fault,       \* "none", "KeyError", "IndexError"
    ttp_b, ttp_B,    \* locals b, B of TTPProgram.run
    ttp_msg,         \* verification_msg as received by TTPProgram.run
    ttp_accepted,    \* payment_accepted; FALSE until line 135 assigns it
    ttp_m,           \* local m of TTPProgram.run, the expected basis
    ttp_matches, ttp_total_checked,   \* the counters of TTPProgram.run
    replaced,        \* history: the token the Issue of this run overwrote
    recording,       \* whether replaced is recorded in this behaviour
    client_id, secret_token, merchant_id,   \* ClientProgram fields
    client_pc,       \* "recv_token", "prepared", "measured", "done", "fault"
    client_token,    \* token_info as received by ClientProgram.run
    qubits,          \* the Holder's qubits, one ket per position
    client_kappa,    \* measurement results
    client_m,        \* local m of ClientProgram.run, the measurement basis
    merchant_pc,     \* "recv_payment", "recv_result", "done"
    merchant_payment,\* payment_data as received by MerchantProgram.run
    merchant_result, \* "unset", TRUE, FALSE
    ch_tc, ch_cm, ch_mt, ch_tm,   \* csockets TTP->Client, Client->Merchant, Merchant->TTP, TTP->Merchant
    sent,            \* the messages sent in this run, in order
    tampers          \* how many times a message of this run was altered in transit

vars == <<token_storage, ttp_pc, ttp_fault, ttp_b, ttp_B, ttp_msg, ttp_accepted,
          ttp_m, ttp_matches, ttp_total_checked, replaced, recording,
          client_id, secret_token, merchant_id, client_pc, client_token, qubits,
          client_kappa, client_m, merchant_pc, merchant_payment, merchant_result,
          ch_tc, ch_cm, ch_mt, ch_tm, sent, tampers>>

ttp_vars == <<token_storage, ttp_pc, ttp_fault, ttp_b, ttp_B, ttp_msg, ttp_accepted,
              ttp_m, ttp_matches, ttp_total_checked, replaced>>
config_vars == <<client_id, secret_token, merchant_id, recording>>
client_vars == <<client_pc, client_token, qubits, client_kappa, client_m>>
merchant_vars == <<merchant_pc, merchant_payment, merchant_result>>

----------------------------------------------------------------------------
(* Constants of the program and of its callers *)

CLIENT_ID == "client_alice"
SECRET_TOKEN == "secret_token_abc123"
MERCHANT_ID == "merchant_shop_xyz"

(* TTPProgram.client_database, never written after construction *)
client_database == [h \in {"client_alice"} |-> "secret_token_abc123"]

(* Constructor arguments a caller may give ClientProgram *)
ClientIds == {CLIENT_ID, "client_bob"}
Secrets == {SECRET_TOKEN, "wrong_secret"}
MerchantIds == {MERCHANT_ID, "merchant_evil"}

Bit == {0, 1}

RECURSIVE BitStrings(_)
BitStrings(n) ==
    IF n = 0 THEN {<<>>}
    ELSE {Append(s, x) : s \in BitStrings(n - 1), x \in Bit}

----------------------------------------------------------------------------
(* mac: the first Lambda bits of SHA-256(secret ++ message) *)

(* The leading eight bits of the SHA-256 digest of each string the model hashes *)
sha256_bits(combined) ==
    CASE combined = "secret_token_abc123merchant_shop_xyz" -> <<0,0,1,1,0,0,0,0>>
      [] combined = "secret_token_abc123merchant_evil"     -> <<1,0,0,0,1,0,0,1>>
      [] combined = "wrong_secretmerchant_shop_xyz"        -> <<0,1,1,0,0,0,0,0>>
      [] combined = "wrong_secretmerchant_evil"            -> <<0,0,1,0,0,0,0,0>>

mac_Untruncated(secret, message) == sha256_bits(secret \o message)

mac(secret, message) ==
    LET combined == secret \o message
        binary == sha256_bits(combined)
    IN SubSeq(binary, 1, Lambda)

----------------------------------------------------------------------------
(* Qubits: kets up to a global phase, and the gates the Holder applies *)

GateX(q) == CASE q = "0" -> "1" [] q = "1" -> "0" [] q = "+" -> "+" [] q = "-" -> "-"
GateZ(q) == CASE q = "0" -> "0" [] q = "1" -> "1" [] q = "+" -> "-" [] q = "-" -> "+"
GateH(q) == CASE q = "0" -> "+" [] q = "1" -> "-" [] q = "+" -> "0" [] q = "-" -> "1"

MeasureOutcomes_Fixed(q) == CASE q = "0" -> {0} [] q = "1" -> {1} [] OTHER -> {0}

(* Outcomes a computational-basis measurement of ket q can give *)
MeasureOutcomes(q) == CASE q = "0" -> {0} [] q = "1" -> {1} [] OTHER -> {0, 1}

(* ClientProgram.run lines 194-202: one qubit from bit bj and basis Bj *)
Prepare(bj, Bj) ==
    IF Bj = 0
    THEN (IF bj = 1 THEN GateX("0") ELSE "0")
    ELSE (IF bj = 1 THEN GateZ(GateH("0")) ELSE GateH("0"))

MeasureIn_NoH(q, mj) == MeasureOutcomes(q)

(* ClientProgram.run lines 220-226: outcomes of measuring q in basis mj *)
MeasureIn(q, mj) == MeasureOutcomes(IF mj = 1 THEN GateH(q) ELSE q)

----------------------------------------------------------------------------
(* The Issuer's check, lines 117-135 *)

RECURSIVE VerifyLoop_OffByOne(_, _, _, _, _, _, _)
VerifyLoop_OffByOne(j, matches, total_checked, m, B_original, b_original, kappa) ==
    IF j > Lambda - 1
    THEN [raised |-> FALSE, matches |-> matches, total_checked |-> total_checked]
    ELSE IF m[j] = B_original[j]
         THEN IF j > Len(kappa)
              THEN [raised |-> TRUE, matches |-> matches,
                    total_checked |-> total_checked + 1]
              ELSE VerifyLoop_OffByOne(j + 1,
                              IF kappa[j] = b_original[j] THEN matches + 1 ELSE matches,
                              total_checked + 1, m, B_original, b_original, kappa)
         ELSE VerifyLoop_OffByOne(j + 1, matches, total_checked, m, B_original,
                                  b_original, kappa)

RECURSIVE VerifyLoop_CountAll(_, _, _, _, _, _, _)
VerifyLoop_CountAll(j, matches, total_checked, m, B_original, b_original, kappa) ==
    IF j > Lambda
    THEN [raised |-> FALSE, matches |-> matches, total_checked |-> total_checked]
    ELSE IF j > Len(kappa)
         THEN [raised |-> TRUE, matches |-> matches, total_checked |-> total_checked]
         ELSE VerifyLoop_CountAll(j + 1,
                  IF kappa[j] = b_original[j] THEN matches + 1 ELSE matches,
                  IF m[j] = B_original[j] THEN total_checked + 1 ELSE total_checked,
                  m, B_original, b_original, kappa)

RECURSIVE VerifyLoop_EarlyExit(_, _, _, _, _, _, _)
VerifyLoop_EarlyExit(j, matches, total_checked, m, B_original, b_original, kappa) ==
    IF j > Lambda
    THEN [raised |-> FALSE, matches |-> matches, total_checked |-> total_checked]
    ELSE IF m[j] = B_original[j]
         THEN IF j > Len(kappa)
              THEN [raised |-> TRUE, matches |-> matches,
                    total_checked |-> total_checked + 1]
              ELSE IF kappa[j] = b_original[j]
                   THEN VerifyLoop_EarlyExit(j + 1, matches + 1, total_checked + 1,
                                             m, B_original, b_original, kappa)
                   ELSE [raised |-> FALSE, matches |-> matches,
                         total_checked |-> total_checked + 1]
         ELSE VerifyLoop_EarlyExit(j + 1, matches, total_checked, m, B_original,
                                   b_original, kappa)

RECURSIVE VerifyLoop(_, _, _, _, _, _, _)
VerifyLoop(j, matches, total_checked, m, B_original, b_original, kappa) ==
    IF j > Lambda
    THEN [raised |-> FALSE, matches |-> matches, total_checked |-> total_checked]
    ELSE IF m[j] = B_original[j]
         THEN IF j > Len(kappa)
              THEN [raised |-> TRUE, matches |-> matches,
                    total_checked |-> total_checked + 1]
              ELSE VerifyLoop(j + 1,
                              IF kappa[j] = b_original[j] THEN matches + 1 ELSE matches,
                              total_checked + 1, m, B_original, b_original, kappa)
         ELSE VerifyLoop(j + 1, matches, total_checked, m, B_original, b_original, kappa)

Accepted_AnyMatch(matches, total_checked) == matches > 0

Accepted_Vacuous(matches, total_checked) == matches = total_checked

Accepted(matches, total_checked) == matches = total_checked /\ total_checked > 0

Lookup_Default(id, storage) ==
    IF "client_alice" \notin DOMAIN storage
    THEN [raised |-> TRUE]
    ELSE IF id \notin DOMAIN client_database \/ id \notin DOMAIN storage
         THEN [raised |-> FALSE, secret_token |-> client_database["client_alice"],
               stored_token |-> storage["client_alice"]]
         ELSE [raised |-> FALSE, secret_token |-> client_database[id],
               stored_token |-> storage[id]]

(* Lines 103-106: both lookups are plain subscripts and raise KeyError *)
Lookup(id, storage) ==
    IF id \notin DOMAIN client_database \/ id \notin DOMAIN storage
    THEN [raised |-> TRUE]
    ELSE [raised |-> FALSE, secret_token |-> client_database[id],
          stored_token |-> storage[id]]

----------------------------------------------------------------------------
(* No token: what replaced holds when the Issue of this run overwrote nothing *)
NoToken == [b |-> <<>>, B |-> <<>>]

Init ==
    /\ token_storage = [h \in {} |-> [b |-> <<>>, B |-> <<>>]]
    /\ ttp_pc = "start"
    /\ ttp_fault = "none"
    /\ ttp_b = <<>> /\ ttp_B = <<>>
    /\ ttp_msg = "unset"
    /\ ttp_accepted = FALSE
    /\ ttp_m = <<>>
    /\ ttp_matches = 0 /\ ttp_total_checked = 0
    /\ replaced = NoToken
    /\ recording = FALSE
    /\ client_m = <<>>
    /\ client_id \in ClientIds
    /\ secret_token \in Secrets
    /\ merchant_id \in MerchantIds
    /\ client_pc = "recv_token"
    /\ client_token = "unset"
    /\ qubits = <<>>
    /\ client_kappa = <<>>
    /\ merchant_pc = "recv_payment"
    /\ merchant_payment = "unset"
    /\ merchant_result = "unset"
    /\ ch_tc = <<>> /\ ch_cm = <<>> /\ ch_mt = <<>> /\ ch_tm = <<>>
    /\ sent = <<>>
    /\ tampers = 0

TTPIssue_NoStore ==
    /\ ttp_pc = "start"
    /\ \E b \in BitStrings(Lambda), B \in BitStrings(Lambda) :
         /\ ttp_b' = b
         /\ ttp_B' = B
         /\ ch_tc' = Append(ch_tc, [b |-> b, B |-> B])
    /\ sent' = Append(sent, "token")
    /\ ttp_pc' = "wait_verify"
    /\ UNCHANGED <<token_storage, replaced, ttp_fault, ttp_msg, ttp_accepted, ttp_m,
                   ttp_matches, ttp_total_checked, config_vars, client_vars,
                   merchant_vars, ch_cm, ch_mt, ch_tm, tampers>>

TTPIssue_KeepOld ==
    /\ ttp_pc = "start"
    /\ \E b \in BitStrings(Lambda), B \in BitStrings(Lambda) :
         /\ ttp_b' = b
         /\ ttp_B' = B
         /\ token_storage' = token_storage @@ ("client_alice" :> [b |-> b, B |-> B])
         /\ ch_tc' = Append(ch_tc, [b |-> b, B |-> B])
    /\ replaced' = (IF recording /\ "client_alice" \in DOMAIN token_storage
                    THEN token_storage["client_alice"] ELSE NoToken)
    /\ sent' = Append(sent, "token")
    /\ ttp_pc' = "wait_verify"
    /\ UNCHANGED <<ttp_fault, ttp_msg, ttp_accepted, ttp_m, ttp_matches,
                   ttp_total_checked, config_vars, client_vars,
                   merchant_vars, ch_cm, ch_mt, ch_tm, tampers>>

(* TTPProgram.run lines 58-87: generate, store under "client_alice", send *)
TTPIssue ==
    /\ ttp_pc = "start"
    /\ ttp_pc' = "wait_verify"
    /\ \E b \in BitStrings(Lambda), B \in BitStrings(Lambda) :
         /\ ttp_b' = b
         /\ ttp_B' = B
         /\ token_storage' = ("client_alice" :> [b |-> b, B |-> B]) @@ token_storage
         /\ ch_tc' = Append(ch_tc, [b |-> b, B |-> B])
    /\ replaced' = (IF recording /\ "client_alice" \in DOMAIN token_storage
                    THEN token_storage["client_alice"] ELSE NoToken)
    /\ sent' = Append(sent, "token")
    /\ UNCHANGED <<ttp_fault, ttp_msg, ttp_accepted, ttp_m, ttp_matches,
                   ttp_total_checked, config_vars, client_vars,
                   merchant_vars, ch_cm, ch_mt, ch_tm, tampers>>

(* TTPProgram.run lines 91-147: receive the request, look up, check, answer *)
TTPVerify ==
    /\ ttp_pc = "wait_verify"
    /\ ch_mt # <<>>
    /\ LET verification_msg == Head(ch_mt)
           id == verification_msg.client_id
           kappa == verification_msg.kappa
       IN /\ ch_mt' = Tail(ch_mt)
          /\ ttp_msg' = verification_msg
          /\ IF Lookup(id, token_storage).raised
             THEN /\ ttp_pc' = "fault"
                  /\ ttp_fault' = "KeyError"
                  /\ UNCHANGED <<ttp_accepted, ttp_m, ttp_matches,
                                 ttp_total_checked, ch_tm, sent>>
             ELSE LET secret == Lookup(id, token_storage).secret_token
                      stored_token == Lookup(id, token_storage).stored_token
                      m == mac(secret, verification_msg.merchant_id)
                      r == VerifyLoop(1, 0, 0, m, stored_token.B, stored_token.b, kappa)
                      payment_accepted == Accepted(r.matches, r.total_checked)
                  IN /\ ttp_m' = m
                     /\ ttp_matches' = r.matches
                     /\ ttp_total_checked' = r.total_checked
                     /\ IF r.raised
                        THEN /\ ttp_pc' = "fault"
                             /\ ttp_fault' = "IndexError"
                             /\ UNCHANGED <<ttp_accepted, ch_tm, sent>>
                        ELSE /\ ttp_accepted' = payment_accepted
                             /\ ch_tm' = Append(ch_tm, [accepted |-> payment_accepted])
                             /\ sent' = Append(sent, "verdict")
                             /\ ttp_pc' = "done"
                             /\ UNCHANGED ttp_fault
    /\ UNCHANGED <<token_storage, ttp_b, ttp_B, replaced, config_vars, client_vars,
                   merchant_vars, ch_tc, ch_cm, tampers>>

(* ClientProgram.run lines 183-206: receive the token description and     *)
(* prepare one qubit per position; b[j] or B[j] past the end of a string   *)
(* raises IndexError                                                       *)
ClientRecvPrepare ==
    /\ client_pc = "recv_token"
    /\ ch_tc # <<>>
    /\ LET token_info == Head(ch_tc)
           b == token_info.b
           B == token_info.B
       IN /\ ch_tc' = Tail(ch_tc)
          /\ client_token' = token_info
          /\ IF Len(B) < Lambda \/ Len(b) < Lambda
             THEN /\ client_pc' = "fault"
                  /\ UNCHANGED qubits
             ELSE /\ qubits' = [j \in 1..Lambda |-> Prepare(b[j], B[j])]
                  /\ client_pc' = "prepared"
    /\ UNCHANGED <<ttp_vars, config_vars, client_kappa, client_m, merchant_vars,
                   ch_cm, ch_mt, ch_tm, sent, tampers>>

(* The cryptograms the measurement of lines 210-229 can give *)
MeasureResults(qs, m) ==
    {k \in BitStrings(Lambda) : \A j \in 1..Lambda : k[j] \in MeasureIn(qs[j], m[j])}

(* ClientProgram.run lines 210-229: m = mac(secret, merchant_id), measure *)
ClientMeasure ==
    /\ client_pc = "prepared"
    /\ client_pc' = "measured"
    /\ LET m == mac(secret_token, merchant_id)
       IN /\ client_m' = m
          /\ client_kappa' \in MeasureResults(qubits, m)
    /\ UNCHANGED <<ttp_vars, config_vars, client_token, qubits, merchant_vars,
                   ch_tc, ch_cm, ch_mt, ch_tm, sent, tampers>>

ClientSend_NoSend ==
    /\ client_pc = "measured"
    /\ client_pc' = "done"
    /\ UNCHANGED <<ttp_vars, config_vars, client_token, qubits, client_kappa,
                   client_m, merchant_vars, ch_tc, ch_cm, ch_mt, ch_tm, sent, tampers>>

ClientSend_LeakToken ==
    /\ client_pc = "measured"
    /\ LET payment_data == [client_id |-> client_id, kappa |-> client_kappa,
                            b |-> client_token.b]
       IN ch_cm' = Append(ch_cm, payment_data)
    /\ sent' = Append(sent, "payment")
    /\ client_pc' = "done"
    /\ UNCHANGED <<ttp_vars, config_vars, client_token, qubits, client_kappa,
                   client_m, merchant_vars, ch_tc, ch_mt, ch_tm, tampers>>

(* ClientProgram.run lines 232-245: send client_id and kappa to the Merchant *)
ClientSend ==
    /\ client_pc = "measured"
    /\ LET payment_data == [client_id |-> client_id, kappa |-> client_kappa]
       IN ch_cm' = Append(ch_cm, payment_data)
    /\ sent' = Append(sent, "payment")
    /\ client_pc' = "done"
    /\ UNCHANGED <<ttp_vars, config_vars, client_token, qubits, client_kappa,
                   client_m, merchant_vars, ch_tc, ch_mt, ch_tm, tampers>>

VerificationRequest_Swapped(payment_data) ==
    [client_id |-> payment_data.client_id,
     kappa |-> payment_data.kappa,
     merchant_id |-> payment_data.client_id]

(* MerchantProgram.run lines 278-282 *)
VerificationRequest(payment_data) ==
    [client_id |-> payment_data.client_id,
     kappa |-> payment_data.kappa,
     merchant_id |-> MERCHANT_ID]

MerchantForward_NoWait ==
    /\ merchant_pc = "recv_payment"
    /\ LET payment_data == IF ch_cm # <<>> THEN Head(ch_cm)
                           ELSE [client_id |-> CLIENT_ID, kappa |-> <<>>]
       IN /\ merchant_payment' = payment_data
          /\ ch_mt' = Append(ch_mt, [client_id |-> payment_data.client_id,
                                     kappa |-> payment_data.kappa,
                                     merchant_id |-> MERCHANT_ID])
    /\ ch_cm' = (IF ch_cm # <<>> THEN Tail(ch_cm) ELSE ch_cm)
    /\ sent' = Append(sent, "request")
    /\ merchant_pc' = "recv_result"
    /\ UNCHANGED <<ttp_vars, config_vars, client_vars, merchant_result,
                   ch_tc, ch_tm, tampers>>

(* MerchantProgram.run lines 269-285: receive the payment, forward it *)
MerchantForward ==
    /\ merchant_pc = "recv_payment"
    /\ ch_cm # <<>>
    /\ ch_cm' = Tail(ch_cm)
    /\ merchant_payment' = Head(ch_cm)
    /\ ch_mt' = Append(ch_mt, VerificationRequest(Head(ch_cm)))
    /\ sent' = Append(sent, "request")
    /\ merchant_pc' = "recv_result"
    /\ UNCHANGED <<ttp_vars, config_vars, client_vars, merchant_result,
                   ch_tc, ch_tm, tampers>>

(* MerchantProgram.run line 295: what the Merchant reports *)
Report(result) == result.accepted

(* MerchantProgram.run lines 288-295: receive the verdict, report it *)
MerchantReport ==
    /\ merchant_pc = "recv_result"
    /\ ch_tm # <<>>
    /\ ch_tm' = Tail(ch_tm)
    /\ merchant_result' = Report(Head(ch_tm))
    /\ merchant_pc' = "done"
    /\ UNCHANGED <<ttp_vars, config_vars, client_vars, merchant_payment,
                   ch_tc, ch_cm, ch_mt, sent, tampers>>

----------------------------------------------------------------------------
(* Messages altered in transit *)

Flip(s, j) == [s EXCEPT ![j] = 1 - s[j]]

(* A bit string in transit with its last character lost or one character gained *)
Resized(s) ==
    (IF Len(s) > 0 THEN {SubSeq(s, 1, Len(s) - 1)} ELSE {})
    \cup {Append(s, x) : x \in Bit}

(* What a cryptogram in transit can be turned into in one alteration *)
Altered(s) == {Flip(s, j) : j \in 1..Len(s)} \cup Resized(s)

(* The cryptogram is altered between the Merchant and the Issuer *)
TamperKappa ==
    /\ tampers < MaxTamper
    /\ ch_mt # <<>>
    /\ \E k \in Altered(Head(ch_mt).kappa) :
         ch_mt' = <<[Head(ch_mt) EXCEPT !.kappa = k]>> \o Tail(ch_mt)
    /\ tampers' = tampers + 1
    /\ UNCHANGED <<ttp_vars, config_vars, client_vars, merchant_vars,
                   ch_tc, ch_cm, ch_tm, sent>>

(* The token description is altered between the Issuer and the Holder *)
TamperToken ==
    /\ tampers < MaxTamper
    /\ ch_tc # <<>>
    /\ \/ \E s \in Resized(Head(ch_tc).b) :
            ch_tc' = <<[Head(ch_tc) EXCEPT !.b = s]>> \o Tail(ch_tc)
       \/ \E s \in Resized(Head(ch_tc).B) :
            ch_tc' = <<[Head(ch_tc) EXCEPT !.B = s]>> \o Tail(ch_tc)
    /\ tampers' = tampers + 1
    /\ UNCHANGED <<ttp_vars, config_vars, client_vars, merchant_vars,
                   ch_cm, ch_mt, ch_tm, sent>>

----------------------------------------------------------------------------
(* run() is called again on the same program objects once all three have   *)
(* returned: token_storage and the ClientProgram fields are kept           *)
NextRun ==
    /\ ttp_pc = "done" /\ client_pc = "done" /\ merchant_pc = "done"
    /\ ttp_pc' = "start"
    /\ ttp_fault' = "none"
    /\ ttp_b' = <<>> /\ ttp_B' = <<>>
    /\ ttp_msg' = "unset"
    /\ ttp_accepted' = FALSE
    /\ ttp_m' = <<>>
    /\ ttp_matches' = 0 /\ ttp_total_checked' = 0
    /\ replaced' = NoToken
    /\ client_m' = <<>>
    /\ client_pc' = "recv_token"
    /\ client_token' = "unset"
    /\ qubits' = <<>>
    /\ client_kappa' = <<>>
    /\ merchant_pc' = "recv_payment"
    /\ merchant_payment' = "unset"
    /\ merchant_result' = "unset"
    /\ sent' = <<>>
    /\ tampers' = 0
    /\ UNCHANGED <<token_storage, config_vars, ch_tc, ch_cm, ch_mt, ch_tm>>

Next ==
    \/ TTPIssue
    \/ TTPVerify
    \/ ClientRecvPrepare
    \/ ClientMeasure
    \/ ClientSend
    \/ MerchantForward
    \/ MerchantReport
    \/ TamperKappa
    \/ TamperToken
    \/ NextRun

Spec == Init /\ [][Next]_vars

----------------------------------------------------------------------------
(* Repeated runs of the programs as sim.py constructs them, over reliable   *)
(* channels, with the token each Issue overwrites recorded in replaced      *)
InitReissue ==
    /\ token_storage = [h \in {} |-> [b |-> <<>>, B |-> <<>>]]
    /\ ttp_pc = "start"
    /\ ttp_fault = "none"
    /\ ttp_b = <<>> /\ ttp_B = <<>>
    /\ ttp_msg = "unset"
    /\ ttp_accepted = FALSE
    /\ ttp_m = <<>>
    /\ ttp_matches = 0 /\ ttp_total_checked = 0
    /\ replaced = NoToken
    /\ recording = TRUE
    /\ client_m = <<>>
    /\ client_id = CLIENT_ID
    /\ secret_token = SECRET_TOKEN
    /\ merchant_id = MERCHANT_ID
    /\ client_pc = "recv_token"
    /\ client_token = "unset"
    /\ qubits = <<>>
    /\ client_kappa = <<>>
    /\ merchant_pc = "recv_payment"
    /\ merchant_payment = "unset"
    /\ merchant_result = "unset"
    /\ ch_tc = <<>> /\ ch_cm = <<>> /\ ch_mt = <<>> /\ ch_tm = <<>>
    /\ sent = <<>>
    /\ tampers = 0

NextReissue ==
    \/ TTPIssue
    \/ TTPVerify
    \/ ClientRecvPrepare
    \/ ClientMeasure
    \/ ClientSend
    \/ MerchantForward
    \/ MerchantReport
    \/ NextRun

SpecReissue == InitReissue /\ [][NextReissue]_vars

----------------------------------------------------------------------------
(* One run over reliable channels, each of the three processes scheduled    *)
(* fairly: a process that can take its next step eventually takes it (every  *)
(* step of a process moves its own program counter)                         *)
NextReliable ==
    \/ TTPIssue
    \/ TTPVerify
    \/ ClientRecvPrepare
    \/ ClientMeasure
    \/ ClientSend
    \/ MerchantForward
    \/ MerchantReport

FairSpec ==
    /\ Init
    /\ [][NextReliable]_vars
    /\ WF_ttp_pc(TTPIssue \/ TTPVerify)
    /\ WF_client_pc(ClientRecvPrepare \/ ClientMeasure \/ ClientSend)
    /\ WF_merchant_pc(MerchantForward \/ MerchantReport)

----------------------------------------------------------------------------
(* The Issuer's check as the specification words it, over sets of positions *)

Finished == ttp_pc \in {"done", "fault"}
Known == ttp_msg.client_id \in DOMAIN client_database
         /\ ttp_msg.client_id \in DOMAIN token_storage
ExpectedBasis == mac(client_database[ttp_msg.client_id], ttp_msg.merchant_id)
Stored == token_storage[ttp_msg.client_id]
Checked == {j \in 1..Lambda : ExpectedBasis[j] = Stored.B[j]}
Matching(k) == {j \in Checked : j <= Len(k) /\ k[j] = Stored.b[j]}
WouldAccept(k) == Cardinality(Checked) > 0
                  /\ Cardinality(Matching(k)) = Cardinality(Checked)

(* C1: for a cryptogram of length Lambda and a known holder, Verify answers,  *)
(* and accepted is true exactly when total_checked > 0 and matches equals     *)
(* total_checked, counting the positions with m[j] = B[j] and among them      *)
(* those with kappa[j] = b[j].                                                *)
C1_AcceptIffAllCheckedMatch ==
    (Finished /\ Known /\ Len(ttp_msg.kappa) = Lambda)
        => /\ ttp_pc = "done"
           /\ ttp_accepted = WouldAccept(ttp_msg.kappa)

C1_Witness ==
    /\ ttp_pc = "done"
    /\ Len(ttp_msg.kappa) = Lambda
    /\ ttp_accepted = TRUE
    /\ Checked # 1..Lambda
    /\ ttp_msg.kappa # Stored.b

(* C2: when the expected basis differs from B at every position, Verify       *)
(* answers accepted = false whatever the cryptogram, raises nothing, and the  *)
(* verdict message is on its way to the Merchant or was reported by it.       *)
C2_NoCheckedPositionRejects ==
    (Finished /\ Known /\ Checked = {})
        => /\ ttp_pc = "done"
           /\ ttp_accepted = FALSE
           /\ \/ ch_tm = <<[accepted |-> FALSE]>>
              \/ merchant_pc = "done" /\ merchant_result = FALSE

C2_Witness ==
    /\ Finished /\ Known /\ Checked = {}
    /\ Len(ttp_msg.kappa) < Lambda
    /\ merchant_pc = "done"
    /\ merchant_result = FALSE

(* A run in which the Holder holds the secret the Issuer looks up and the     *)
(* identity the Merchant attaches, and no message was altered                 *)
Honest ==
    /\ client_id \in DOMAIN client_database
    /\ secret_token = client_database[client_id]
    /\ merchant_id = MERCHANT_ID
    /\ tampers = 0

(* C3 as claimed: every honest run ends with accepted = true.                 *)
C3_HonestAlwaysAccepted ==
    (Finished /\ Honest) => (ttp_pc = "done" /\ ttp_accepted = TRUE)

(* C3, amended: an honest run ends with a verdict, and the verdict is         *)
(* accepted = true exactly when B agrees with the expected basis at one       *)
(* position at least; it is accepted = false when they differ everywhere.     *)
C3_HonestAcceptedIffChecked ==
    (Finished /\ Honest) => (ttp_pc = "done" /\ ttp_accepted = (Checked # {}))

C3_Witness ==
    /\ Finished /\ Honest
    /\ ttp_accepted = TRUE
    /\ \E j \in 1..Lambda : client_kappa[j] # ttp_b[j]

(* C4: a cryptogram of length Lambda that is one flipped bit, at a checked    *)
(* position, away from a cryptogram that would be accepted is rejected.       *)
C4_TamperDetected ==
    (ttp_pc = "done" /\ Len(ttp_msg.kappa) = Lambda)
        => \A j \in Checked :
              WouldAccept(Flip(ttp_msg.kappa, j)) => ttp_accepted = FALSE

C4_Witness ==
    /\ ttp_pc = "done"
    /\ tampers = 1
    /\ WouldAccept(client_kappa)
    /\ \E j \in Checked : ttp_msg.kappa = Flip(client_kappa, j)

(* C5: a Verify that answered has consumed the token: once the Issuer has     *)
(* sent its verdict for a holder, token_storage holds no token for that       *)
(* holder, so that another lookup for it would fail.                          *)
C5_TokenConsumed ==
    ttp_pc = "done" => ttp_msg.client_id \notin DOMAIN token_storage

Range(f) == {f[i] : i \in DOMAIN f}

(* C6: a request whose holder is absent from client_database or from          *)
(* token_storage ends the Issuer in a KeyError fault; no verdict message is   *)
(* sent and the Merchant reports nothing.                                     *)
C6_UnknownHolderFaults ==
    (Finished /\ ~Known)
        => /\ ttp_pc = "fault"
           /\ ttp_fault = "KeyError"
           /\ ch_tm = <<>>
           /\ "verdict" \notin Range(sent)
           /\ merchant_pc # "done"

C6_Witness ==
    /\ Finished /\ ~Known
    /\ ttp_msg.client_id = "client_bob"
    /\ "client_alice" \in DOMAIN token_storage

(* C7: the Issuer never answers a cryptogram whose length is not Lambda with  *)
(* a verdict.                                                                 *)
C7_WrongLengthNeverAnswered ==
    ttp_pc = "done" => Len(ttp_msg.kappa) = Lambda

(* The Holder's measurement basis and the token description it received *)
HolderBasis == mac(secret_token, merchant_id)
Lawful(k) == \A j \in 1..Lambda :
                HolderBasis[j] = client_token.B[j] => k[j] = client_token.b[j]

(* C8: once the Holder has measured, kappa[j] = b[j] at every position where  *)
(* its basis m[j] equals the preparation basis B[j]; and before it measures,  *)
(* every cryptogram that obeys this at the equal-basis positions is a         *)
(* possible result, so each other position can give 0 or 1 whatever the       *)
(* remaining positions give.                                                  *)
C8_MeasurementLaw ==
    /\ client_pc \in {"measured", "done"} => Lawful(client_kappa)
    /\ client_pc = "prepared" =>
          \A k \in BitStrings(Lambda) :
             Lawful(k) => ENABLED (ClientMeasure /\ client_kappa' = k)

C8_Witness ==
    /\ client_pc = "measured"
    /\ \E i, j \in 1..Lambda :
          /\ HolderBasis[i] # client_token.B[i]
          /\ HolderBasis[j] # client_token.B[j]
          /\ client_kappa[i] = client_token.b[i]
          /\ client_kappa[j] # client_token.b[j]
    /\ \E j \in 1..Lambda : HolderBasis[j] = client_token.B[j]

(* C9: the request the Merchant sends holds the client_id and the kappa of    *)
(* the payment it received, and MERCHANT_ID; what it reports is the accepted  *)
(* field of the verdict it received, which is the Issuer's payment_accepted.  *)
C9_PassThrough ==
    /\ [][/\ (merchant_pc = "recv_payment" /\ merchant_pc' = "recv_result")
             => /\ ch_cm # <<>>
                /\ ch_mt' = Append(ch_mt, [client_id |-> Head(ch_cm).client_id,
                                           kappa |-> Head(ch_cm).kappa,
                                           merchant_id |-> "merchant_shop_xyz"])
          /\ (merchant_pc = "recv_result" /\ merchant_pc' = "done")
             => /\ ch_tm # <<>>
                /\ merchant_result' = Head(ch_tm).accepted]_vars
    /\ [](merchant_pc = "done" => merchant_result = ttp_accepted)

C9_Witness ==
    /\ merchant_pc = "done"
    /\ merchant_result = TRUE
    /\ ttp_msg = [client_id |-> client_id, kappa |-> client_kappa,
                  merchant_id |-> MERCHANT_ID]

Order == <<"token", "payment", "request", "verdict">>

(* C10: the messages of a run are sent in the order token description,        *)
(* cryptogram, verification request, verdict; the Merchant has sent its       *)
(* request only once it holds the payment the Holder sent; the Holder has     *)
(* prepared or measured only once it holds the token description of a token   *)
(* that Issue stored.                                                         *)
C10_MessageOrder ==
    /\ Len(sent) <= Len(Order)
    /\ sent = SubSeq(Order, 1, Len(sent))
    /\ merchant_pc # "recv_payment"
          => /\ client_pc = "done"
             /\ merchant_payment = [client_id |-> client_id, kappa |-> client_kappa]
    /\ client_pc \in {"prepared", "measured", "done", "fault"}
          => /\ ttp_pc # "start"
             /\ "client_alice" \in DOMAIN token_storage
             /\ tampers = 0 => client_token = token_storage["client_alice"]

C10_Witness ==
    /\ sent = Order
    /\ merchant_pc = "done"
    /\ client_pc = "done"

----------------------------------------------------------------------------
(* The accept rule for any token and basis, and what the Holder can measure *)

RuleChecked(m, tok) == {j \in 1..Lambda : m[j] = tok.B[j]}
RuleAccept(m, tok, k) ==
    /\ RuleChecked(m, tok) # {}
    /\ \A j \in RuleChecked(m, tok) : j <= Len(k) /\ k[j] = tok.b[j]
HolderOutcomes(tok, m) ==
    MeasureResults([j \in 1..Lambda |-> Prepare(tok.b[j], tok.B[j])], m)

(* C11 as claimed: what the Verifier holds at the end of an unaltered run     *)
(* does not depend on the token: every other token (b2, B2) that can lead to  *)
(* the same verdict can lead to it with the same cryptogram in the Verifier's *)
(* hands.                                                                     *)
C11_ObservationIndependentOfToken ==
    (merchant_pc = "done" /\ tampers = 0)
        => \A b2 \in BitStrings(Lambda), B2 \in BitStrings(Lambda) :
              LET tok2 == [b |-> b2, B |-> B2]
                  outs == HolderOutcomes(tok2, client_m)
              IN (\E k \in outs : RuleAccept(ttp_m, tok2, k) = merchant_result)
                    => /\ merchant_payment.kappa \in outs
                       /\ RuleAccept(ttp_m, tok2, merchant_payment.kappa)
                             = merchant_result

(* C11, amended: every message delivered to the Verifier has the fields       *)
(* client_id and kappa, or the field accepted, and nothing else; what the     *)
(* Verifier holds is the Holder's client_id, the Holder's cryptogram and a    *)
(* boolean.  The cryptogram carries the token bit at each position where the  *)
(* Holder's basis equals B, and nothing of the token bits elsewhere: every    *)
(* token with the same B and the same bits at the equal-basis positions can   *)
(* give the same cryptogram.                                                  *)
C11_VerifierHoldsIdKappaVerdict ==
    /\ \A i \in DOMAIN ch_cm :
          /\ DOMAIN ch_cm[i] = {"client_id", "kappa"}
          /\ ch_cm[i] = [client_id |-> client_id, kappa |-> client_kappa]
    /\ \A i \in DOMAIN ch_tm :
          /\ DOMAIN ch_tm[i] = {"accepted"}
          /\ ch_tm[i].accepted \in BOOLEAN
    /\ merchant_pc # "recv_payment"
          => /\ DOMAIN merchant_payment = {"client_id", "kappa"}
             /\ merchant_payment = [client_id |-> client_id, kappa |-> client_kappa]
    /\ merchant_pc = "done" => merchant_result \in BOOLEAN
    /\ (merchant_pc # "recv_payment" /\ tampers = 0)
          => \A b2 \in BitStrings(Lambda) :
                (\A j \in 1..Lambda : client_m[j] = ttp_B[j] => b2[j] = ttp_b[j])
                   => merchant_payment.kappa
                         \in HolderOutcomes([b |-> b2, B |-> ttp_B], client_m)

C11_Witness ==
    /\ merchant_pc = "done"
    /\ tampers = 0
    /\ merchant_result = TRUE
    /\ \E j \in 1..Lambda : client_m[j] = ttp_B[j] /\ merchant_payment.kappa[j] = 1
    /\ \E j \in 1..Lambda : client_m[j] # ttp_B[j]

C13_VerdictAfterCompleteLoop ==
    /\ Len(ch_tm) <= 1
    /\ Cardinality({i \in DOMAIN sent : sent[i] = "verdict"}) <= 1
    /\ "verdict" \in Range(sent)
          => /\ ttp_pc = "done"
             /\ ttp_total_checked = Cardinality(Checked)
             /\ ttp_matches = Cardinality(Matching(ttp_msg.kappa))
             /\ ttp_accepted = (ttp_matches = ttp_total_checked
                                 /\ ttp_total_checked > 0)
             /\ \A i \in DOMAIN ch_tm : ch_tm[i] = [accepted |-> ttp_accepted]
             /\ merchant_pc = "done" => merchant_result = ttp_accepted
    /\ ttp_pc # "done"
          => /\ ch_tm = <<>>
             /\ "verdict" \notin Range(sent)
             /\ merchant_pc # "done"

C13_Witness ==
    /\ ttp_pc = "done"
    /\ ttp_accepted = FALSE
    /\ ttp_total_checked = Lambda
    /\ ttp_matches = Lambda - 1
    /\ ttp_msg.kappa[1] # Stored.b[1]
    /\ ch_tm = <<[accepted |-> FALSE]>>

(* C14: the Issuer's control state moves from start (Idle) to wait_verify     *)
(* (TokenIssued, AwaitingVerification) to done (Verified), or stops on a      *)
(* fault while waiting, and returns to start only when a new run begins; from *)
(* wait_verify on the token of this run is stored and was sent first, so no   *)
(* verdict precedes it; once the Issuer is done or has faulted it sends and   *)
(* receives nothing more in the run.                                          *)
C14_IssuerStateOrder ==
    /\ [][/\ ttp_pc' # ttp_pc
               => \/ <<ttp_pc, ttp_pc'>> \in {<<"start", "wait_verify">>,
                                              <<"wait_verify", "done">>,
                                              <<"wait_verify", "fault">>}
                  \/ <<ttp_pc, ttp_pc'>> = <<"done", "start">> /\ sent' = <<>>
          /\ (ttp_pc \in {"done", "fault"} /\ ttp_pc' = ttp_pc)
               => /\ UNCHANGED <<ttp_vars, ch_tc, ch_mt, sent>>
                  /\ \/ ch_tm' = ch_tm
                     \/ ch_tm # <<>> /\ ch_tm' = Tail(ch_tm)]_vars
    /\ [](/\ ttp_pc = "start" => (sent = <<>> /\ ch_tc = <<>> /\ ch_tm = <<>>)
          /\ ttp_pc # "start"
               => /\ sent # <<>> /\ sent[1] = "token"
                  /\ "client_alice" \in DOMAIN token_storage
                  /\ token_storage["client_alice"] = [b |-> ttp_b, B |-> ttp_B]
          /\ "verdict" \in Range(sent) => ttp_pc = "done")

C14_Witness ==
    /\ ttp_pc = "done"
    /\ merchant_pc = "done"
    /\ ch_tm = <<>>
    /\ token_storage["client_alice"] = [b |-> ttp_b, B |-> ttp_B]
    /\ sent[1] = "token" /\ sent[Len(sent)] = "verdict"

(* C15: Issue does not fail when a token is already stored for the holder;    *)
(* after it token_storage holds the newly generated (b, B) and nothing else,  *)
(* and the verdict of the following Verify is the rule applied to the new     *)
(* token.                                                                     *)
C15_ReissueOverwrites ==
    /\ ttp_pc = "start" => ENABLED TTPIssue
    /\ ttp_pc # "start"
          => token_storage = ("client_alice" :> [b |-> ttp_b, B |-> ttp_B])
    /\ ttp_pc = "done"
          => ttp_accepted = RuleAccept(ttp_m, [b |-> ttp_b, B |-> ttp_B], ttp_msg.kappa)

C15_Witness ==
    /\ ttp_pc = "done"
    /\ replaced # NoToken
    /\ replaced # [b |-> ttp_b, B |-> ttp_B]
    /\ RuleAccept(ttp_m, replaced, ttp_msg.kappa) # ttp_accepted

AllDone == ttp_pc = "done" /\ client_pc = "done" /\ merchant_pc = "done"

(* C16 as claimed: every run ends with all three participants returned, and   *)
(* a Verifier that has forwarded a request eventually reports a verdict.      *)
C16_EveryRunTerminates ==
    /\ <>AllDone
    /\ (merchant_pc = "recv_result") ~> (merchant_pc = "done")

(* C16, amended: the same, for the runs whose Holder is configured with a     *)
(* client_id of client_database (the holder under which Issue stores).        *)
C16_KnownHolderRunTerminates ==
    (client_id \in DOMAIN client_database)
        => /\ <>AllDone
           /\ (merchant_pc = "recv_result") ~> (merchant_pc = "done")

C16_Witness ==
    /\ AllDone
    /\ client_id \in DOMAIN client_database
    /\ ttp_fault = "none"
    /\ ch_tc = <<>> /\ ch_cm = <<>> /\ ch_mt = <<>> /\ ch_tm = <<>>

(* C17: the Holder sends a cryptogram only for a token description whose bit  *)
(* string and basis string both have length Lambda.                           *)
C17_MalformedTokenNoCryptogram ==
    "payment" \in Range(sent)
        => Len(client_token.b) = Lambda /\ Len(client_token.B) = Lambda

IssuerVerdict(m, tok, k) ==
    LET r == VerifyLoop(1, 0, 0, m, tok.B, tok.b, k)
    IN [raised |-> r.raised,
        accepted |-> ~r.raised /\ Accepted(r.matches, r.total_checked)]

(* The cryptograms that agree with k at every checked position: k with any    *)
(* set of its unchecked positions flipped, as it is, with its last character  *)
(* lost when that position is not a checked one, or with one character more.  *)
Agreeing(k) ==
    LET unchecked == (1..Len(k)) \ Checked
        flipped == {[j \in 1..Len(k) |-> IF j \in S THEN 1 - k[j] ELSE k[j]] :
                       S \in SUBSET unchecked}
    IN {k3 \in flipped \cup UNION {Resized(k2) : k2 \in flipped} :
           \A j \in Checked : j <= Len(k3)}

(* C18: whenever the Issuer has answered a cryptogram, it gives the same      *)
(* verdict to every cryptogram that agrees with it at the checked positions,  *)
(* whatever it holds, or lacks, at the other positions.                       *)
C18_UncheckedPositionsIgnored ==
    ttp_pc = "done"
        => \A k2 \in Agreeing(ttp_msg.kappa) :
              /\ \A j \in Checked : k2[j] = ttp_msg.kappa[j]
              /\ IssuerVerdict(ttp_m, Stored, k2)
                    = [raised |-> FALSE, accepted |-> ttp_accepted]

C18_Witness ==
    /\ ttp_pc = "done"
    /\ ttp_accepted = TRUE
    /\ Checked # 1..Lambda
    /\ \E k2 \in Agreeing(ttp_msg.kappa) :
          /\ Len(k2) = Lambda
          /\ k2 # ttp_msg.kappa
          /\ IssuerVerdict(ttp_m, Stored, k2).accepted

(* C19: token_storage never has a key other than "client_alice"; in a run     *)
(* whose Holder has another client_id, the Issuer ends in a KeyError fault,   *)
(* it never sends a verdict, and the Verifier stays at its receive from the   *)
(* Issuer for ever.                                                           *)
C19_OtherHolderNeverAnswered ==
    /\ [](DOMAIN token_storage \subseteq {"client_alice"})
    /\ (client_id # "client_alice")
          => /\ <>[](/\ ttp_pc = "fault"
                     /\ ttp_fault = "KeyError"
                     /\ merchant_pc = "recv_result")
             /\ [](ch_tm = <<>> /\ merchant_pc # "done")

C19_Witness ==
    /\ client_id = "client_bob"
    /\ ttp_pc = "fault"
    /\ ttp_msg.client_id = "client_bob"
    /\ merchant_pc = "recv_result"
    /\ DOMAIN token_storage = {"client_alice"}

(* The basis the Issuer will expect for the Holder's client_id *)
IssuerExpected == mac(client_database[client_id], MERCHANT_ID)

(* C20: the Issuer's expected basis is mac of the looked-up secret and        *)
(* MERCHANT_ID, the Holder's is mac of its own secret and merchant_id.  At a  *)
(* position where the Issuer's basis equals B[j] and the Holder's differs,    *)
(* the Holder can measure a bit other than b[j]; and in an unaltered run the  *)
(* verdict is accepted = true exactly when there is such a checked position   *)
(* and the Holder's outcome equals b[j] at every checked position.            *)
C20_BoundToVerifierIdentity ==
    /\ (client_pc = "prepared" /\ tampers = 0 /\ client_id \in DOMAIN client_database)
          => \A j \in 1..Lambda :
                (IssuerExpected[j] = ttp_B[j] /\ HolderBasis[j] # IssuerExpected[j])
                   => ENABLED (ClientMeasure /\ client_kappa'[j] # ttp_b[j])
    /\ (ttp_pc = "done" /\ tampers = 0)
          => /\ ttp_m = IssuerExpected
             /\ client_m = mac(secret_token, merchant_id)
             /\ ttp_accepted = (/\ Checked # {}
                                 /\ \A j \in Checked : client_kappa[j] = ttp_b[j])

C20_Witness ==
    /\ ttp_pc = "done" /\ tampers = 0
    /\ client_id = CLIENT_ID /\ secret_token = SECRET_TOKEN
    /\ merchant_id # MERCHANT_ID
    /\ ttp_accepted = FALSE
    /\ \E j \in Checked : client_m[j] # ttp_m[j] /\ client_kappa[j] # ttp_b[j]
====
